---- MODULE Spec2Model ----
(***************************************************************************)
(* Model of server.js: the login route, the verifyToken middleware, the    *)
(* two protected routes, and the jwt.sign / jwt.verify calls they make.    *)
(*                                                                         *)
(* Strings that the code inspects character by character (the             *)
(* Authorization header, the token) are sequences of one-character        *)
(* strings.  Strings that the code only compares as a whole (user names,   *)
(* passwords, messages, secrets) are TLA+ strings.                         *)
(*                                                                         *)
(* A token is  header "." payload "." signature  as jsonwebtoken writes    *)
(* it.  A segment is written over the alphabet B64 (a small stand-in for   *)
(* base64url); the HMAC is a keyed substitution over that alphabet, which  *)
(* is injective for a fixed key and differs at every position between two  *)
(* keys (the ideal-MAC abstraction of HMAC-SHA256).                        *)
(*                                                                         *)
(* The clock counts NumericDate units (what jsonwebtoken puts in iat and   *)
(* exp); one tick is 30 minutes, so '1h' is ExpiresIn = 2 ticks.  last is   *)
(* the request being answered and its response; it is gone from the wire   *)
(* by the next tick of the clock.                                          *)
(***************************************************************************)
EXTENDS Integers, Sequences, FiniteSets, TLC

VARIABLES JWT_SECRET, clock, issued, last

vars == <<JWT_SECRET, clock, issued, last>>

\* ------------------------------------------------------------ bounds
MaxClock == 3
MaxTokens == 2
MaxMut == 1

\* ------------------------------------------------------------ constants
ExpiresIn == 2

DefaultSecret == "your_secret_key_change_in_production"
OtherSecret == "some_other_secret"

DEMO_USER ==
  [id |-> 1, username |-> "admin", password |-> "password123",
   email |-> "admin@example.com"]

\* ------------------------------------------------------------ characters
B64 == <<"0", "1", "2", "3", "4", "5", "6", "7", "8", "9",
         "a", "e", "h", "m", "n", "x">>

Range(s) == {s[i] : i \in 1..Len(s)}

IdxOf(c) == CHOOSE i \in 1..Len(B64) : B64[i] = c

Rot(c, k) == B64[((IdxOf(c) - 1 + k) % Len(B64)) + 1]

IsDigit(c) == c \in Range(B64) /\ IdxOf(c) <= 10

DigitChar(d) == B64[d + 1]

DigitVal(c) == IdxOf(c) - 1

\* A NumericDate, written as one decimal digit (the clock stays below 10).
EncodeNum(n) == <<DigitChar(n % 10)>>

DecodeNum(s) == DigitVal(s[1])

BearerPrefix == <<"B", "e", "a", "r", "e", "r", " ">>

\* String.prototype.startsWith
StartsWith(s, p) == Len(s) >= Len(p) /\ SubSeq(s, 1, Len(p)) = p

\* String.prototype.slice(n), n >= 0
Slice(s, n) == SubSeq(s, n + 1, Len(s))

\* String.prototype.split('.')
RECURSIVE Split(_)
Split(s) ==
  IF \A i \in 1..Len(s) : s[i] # "."
  THEN <<s>>
  ELSE LET i == CHOOSE k \in 1..Len(s) :
                  s[k] = "." /\ \A j \in 1..(k - 1) : s[j] # "."
       IN <<SubSeq(s, 1, i - 1)>> \o Split(SubSeq(s, i + 1, Len(s)))

\* ------------------------------------------------------------ JS values
\* A value of a parsed JSON body field, or undefined when the field is absent.
Undef == [t |-> "undefined", s |-> ""]
Str(x) == [t |-> "string", s |-> x]
Num(x) == [t |-> "number", s |-> x]

\* JavaScript's !v for these values.
Falsy(v) ==
  \/ v.t = "undefined"
  \/ v.t = "string" /\ v.s = ""
  \/ v.t = "number" /\ v.s = "0"

\* req.headers.authorization: undefined, or a string.
NoHeader == [present |-> FALSE, value |-> <<>>]
Header(s) == [present |-> TRUE, value |-> s]

\* !authHeader and !token: undefined, null and "" are falsy.
FalsyStr(h) == ~h.present \/ h.value = <<>>

\* ------------------------------------------------------------ jsonwebtoken
KeyShift(secret) ==
  CASE secret = DefaultSecret -> 1
    [] secret = OtherSecret -> 2
    [] OTHER -> 3

\* HMAC over the signing input  header "." payload.
Hmac(secret, input) ==
  [i \in 1..Len(input) |->
     IF input[i] \in Range(B64) THEN Rot(input[i], KeyShift(secret)) ELSE "_"]

HS256Header == <<"h">>

NameCode(username) ==
  CASE username = "admin" -> "a"
    [] username = "mallory" -> "m"

MailCode(email) ==
  CASE email = "admin@example.com" -> "e"
    [] email = "mallory@example.com" -> "x"

\* The payload segment of {id, username, email, iat, exp}.
EncodePayload(p) ==
  <<DigitChar(p.id), NameCode(p.username), MailCode(p.email)>>
    \o EncodeNum(p.iat) \o EncodeNum(p.exp)

PayloadParses(s) ==
  /\ Len(s) = 5
  /\ IsDigit(s[1])
  /\ s[2] \in {"a", "m"}
  /\ s[3] \in {"e", "x"}
  /\ \A i \in 4..5 : IsDigit(s[i])

DecodePayload(s) ==
  [id |-> DigitVal(s[1]),
   username |-> IF s[2] = "a" THEN "admin" ELSE "mallory",
   email |-> IF s[3] = "e" THEN "admin@example.com" ELSE "mallory@example.com",
   iat |-> DecodeNum(SubSeq(s, 4, 4)),
   exp |-> DecodeNum(SubSeq(s, 5, 5))]

NoPayload == [id |-> 0, username |-> "", email |-> "", iat |-> 0, exp |-> 0]

\* The compact serialization of a signed token.
JwsSign(header, payloadSeg, secret) ==
  header \o <<".">> \o payloadSeg \o <<".">>
    \o Hmac(secret, header \o <<".">> \o payloadSeg)

\* Mutant: the expiry is the issuance time (the validity window is dropped).
JwtSignNoWindow(claims, secret, now) ==
  JwsSign(HS256Header,
          EncodePayload([id |-> claims.id, username |-> claims.username,
                         email |-> claims.email, iat |-> now, exp |-> now]),
          secret)

\* jwt.sign(claims, secret, { expiresIn: '1h' }) at time now.
JwtSign(claims, secret, now) ==
  JwsSign(HS256Header,
          EncodePayload([id |-> claims.id, username |-> claims.username,
                         email |-> claims.email, iat |-> now,
                         exp |-> now + ExpiresIn]),
          secret)

VerifyOk(p) == [ok |-> TRUE, name |-> "", payload |-> p]
VerifyErr(n) == [ok |-> FALSE, name |-> n, payload |-> NoPayload]

\* The token has three segments, a header naming HS256 and a payload that parses.
Decodes(parts) ==
  /\ Len(parts) = 3
  /\ parts[1] = HS256Header
  /\ PayloadParses(parts[2])

SignatureValid(parts, secret) ==
  parts[3] = Hmac(secret, parts[1] \o <<".">> \o parts[2])


\* Mutant: the signature is decoded but never checked.
JwtVerifyNoSignature(token, secret, now) ==
  LET parts == Split(token) IN
  IF ~Decodes(parts) THEN VerifyErr("JsonWebTokenError")
  ELSE IF now >= DecodePayload(parts[2]).exp THEN VerifyErr("TokenExpiredError")
  ELSE VerifyOk(DecodePayload(parts[2]))

\* Mutant: the expiry instant itself is still accepted.
JwtVerifyLateExpiry(token, secret, now) ==
  LET parts == Split(token) IN
  IF ~Decodes(parts) THEN VerifyErr("JsonWebTokenError")
  ELSE IF ~SignatureValid(parts, secret) THEN VerifyErr("JsonWebTokenError")
  ELSE IF now > DecodePayload(parts[2]).exp THEN VerifyErr("TokenExpiredError")
  ELSE VerifyOk(DecodePayload(parts[2]))

\* Mutant: the expiry is checked before the signature.
JwtVerifyExpiryFirst(token, secret, now) ==
  LET parts == Split(token) IN
  IF ~Decodes(parts) THEN VerifyErr("JsonWebTokenError")
  ELSE IF now >= DecodePayload(parts[2]).exp THEN VerifyErr("TokenExpiredError")
  ELSE IF ~SignatureValid(parts, secret) THEN VerifyErr("JsonWebTokenError")
  ELSE VerifyOk(DecodePayload(parts[2]))

\* Mutant: a token is accepted once; the request before this one used it up.
JwtVerifySingleUse(token, secret, now) ==
  LET parts == Split(token) IN
  IF ~Decodes(parts) THEN VerifyErr("JsonWebTokenError")
  ELSE IF ~SignatureValid(parts, secret) THEN VerifyErr("JsonWebTokenError")
  ELSE IF now >= DecodePayload(parts[2]).exp THEN VerifyErr("TokenExpiredError")
  ELSE IF last.handlerRan /\ last.authorization = Header(BearerPrefix \o token)
    THEN VerifyErr("JsonWebTokenError")
  ELSE VerifyOk(DecodePayload(parts[2]))

\* Mutant: a later login revokes the tokens issued before it.
JwtVerifyNewestOnly(token, secret, now) ==
  LET parts == Split(token) IN
  IF ~Decodes(parts) THEN VerifyErr("JsonWebTokenError")
  ELSE IF ~SignatureValid(parts, secret) THEN VerifyErr("JsonWebTokenError")
  ELSE IF now >= DecodePayload(parts[2]).exp THEN VerifyErr("TokenExpiredError")
  ELSE IF \E r \in issued : r.t > DecodePayload(parts[2]).iat
    THEN VerifyErr("JsonWebTokenError")
  ELSE VerifyOk(DecodePayload(parts[2]))

\* jwt.verify(token, secret) at time now: the decoded payload, or the name of
\* the error thrown.  Every failure before the expiry check is a
\* JsonWebTokenError ('jwt malformed', 'invalid token', 'invalid algorithm',
\* 'invalid signature'); the expiry check comes last.
JwtVerify(token, secret, now) ==
  LET parts == Split(token) IN
  IF ~Decodes(parts) THEN VerifyErr("JsonWebTokenError")
  ELSE IF ~SignatureValid(parts, secret) THEN VerifyErr("JsonWebTokenError")
  ELSE IF now >= DecodePayload(parts[2]).exp THEN VerifyErr("TokenExpiredError")
  ELSE VerifyOk(DecodePayload(parts[2]))

\* ------------------------------------------------------------ verifyToken
MsgNoToken == "No token provided"
MsgFormat == "Invalid token format. Use Bearer <token>"
MsgExpired == "Token has expired"
MsgInvalid == "Invalid token"
MsgFailed == "Token verification failed"

\* res.status(401).json({ message }) and return: next is not called.
GateDeny(message, verified) ==
  [next |-> FALSE, status |-> 401, message |-> message, user |-> NoPayload,
   verifierCalled |-> verified]

\* req.user = decoded; next()
GateAllow(decoded) ==
  [next |-> TRUE, status |-> 0, message |-> "", user |-> decoded,
   verifierCalled |-> TRUE]

\* The catch block of verifyToken.
GateCatch(name) ==
  IF name = "TokenExpiredError" THEN GateDeny(MsgExpired, TRUE)
  ELSE IF name = "JsonWebTokenError" THEN GateDeny(MsgInvalid, TRUE)
  ELSE GateDeny(MsgFailed, TRUE)

\* Mutant: the catch block answers 401 and then falls through to next().
verifyTokenFallsThrough(authHeader, now) ==
  IF FalsyStr(authHeader) THEN GateDeny(MsgNoToken, FALSE)
  ELSE LET token == IF StartsWith(authHeader.value, BearerPrefix)
                    THEN Header(Slice(authHeader.value, 7)) ELSE NoHeader
       IN IF FalsyStr(token) THEN GateDeny(MsgFormat, FALSE)
          ELSE LET r == JwtVerify(token.value, JWT_SECRET, now)
               IN IF r.ok THEN GateAllow(r.payload)
                  ELSE [GateCatch(r.name) EXCEPT !.next = TRUE]

\* Mutant: the scheme is not checked; whatever follows 7 characters is the token.
verifyTokenNoSchemeCheck(authHeader, now) ==
  IF FalsyStr(authHeader) THEN GateDeny(MsgNoToken, FALSE)
  ELSE LET token == Header(Slice(authHeader.value, 7))
       IN IF FalsyStr(token) THEN GateDeny(MsgFormat, FALSE)
          ELSE LET r == JwtVerify(token.value, JWT_SECRET, now)
               IN IF r.ok THEN GateAllow(r.payload) ELSE GateCatch(r.name)

\* Mutant: the prefix is cut one character short.
verifyTokenSlice6(authHeader, now) ==
  IF FalsyStr(authHeader) THEN GateDeny(MsgNoToken, FALSE)
  ELSE LET token == IF StartsWith(authHeader.value, BearerPrefix)
                    THEN Header(Slice(authHeader.value, 6)) ELSE NoHeader
       IN IF FalsyStr(token) THEN GateDeny(MsgFormat, FALSE)
          ELSE LET r == JwtVerify(token.value, JWT_SECRET, now)
               IN IF r.ok THEN GateAllow(r.payload) ELSE GateCatch(r.name)

\* verifyToken(req, res, next) for req.headers.authorization = authHeader.
verifyToken(authHeader, now) ==
  IF FalsyStr(authHeader) THEN GateDeny(MsgNoToken, FALSE)
  ELSE LET token == IF StartsWith(authHeader.value, BearerPrefix)
                    THEN Header(Slice(authHeader.value, 7)) ELSE NoHeader
       IN IF FalsyStr(token) THEN GateDeny(MsgFormat, FALSE)
          ELSE LET r == JwtVerify(token.value, JWT_SECRET, now)
               IN IF r.ok THEN GateAllow(r.payload) ELSE GateCatch(r.name)

\* ------------------------------------------------------------ handlers
NoToken == [present |-> FALSE, value |-> <<>>]
NoUser == [id |-> 0, username |-> "", email |-> ""]
NoData == [userId |-> 0, accessLevel |-> "", lastAccessed |-> -1]
NoBody == [username |-> Undef, password |-> Undef]

LoginResponse(status, message, token, called) ==
  [status |-> status, message |-> message, token |-> token,
   issuerCalled |-> called]

\* Mutant: one matching field is enough.
LoginHandlerEitherField(body, now) ==
  IF Falsy(body.username) \/ Falsy(body.password)
  THEN LoginResponse(400, "Username and password are required", NoToken, FALSE)
  ELSE IF \/ body.username = Str(DEMO_USER.username)
          \/ body.password = Str(DEMO_USER.password)
  THEN LoginResponse(200, "Login successful",
                     [present |-> TRUE,
                      value |-> JwtSign(DEMO_USER, JWT_SECRET, now)], TRUE)
  ELSE LoginResponse(401, "Invalid credentials", NoToken, FALSE)

\* The handler of POST /api/login for req.body = body.
LoginHandler(body, now) ==
  IF Falsy(body.username) \/ Falsy(body.password)
  THEN LoginResponse(400, "Username and password are required", NoToken, FALSE)
  ELSE IF /\ body.username = Str(DEMO_USER.username)
          /\ body.password = Str(DEMO_USER.password)
  THEN LoginResponse(200, "Login successful",
                     [present |-> TRUE,
                      value |-> JwtSign(DEMO_USER, JWT_SECRET, now)], TRUE)
  ELSE LoginResponse(401, "Invalid credentials", NoToken, FALSE)

\* The handler of GET /api/profile, reading req.user.
ProfileHandler(user, now) ==
  [status |-> 200, message |-> "User profile data",
   user |-> [id |-> user.id, username |-> user.username, email |-> user.email],
   data |-> NoData]

\* The handler of GET /api/user-data, reading req.user.
UserDataHandler(user, now) ==
  [status |-> 200, message |-> "This is protected user data",
   user |-> NoUser,
   data |-> [userId |-> user.id, accessLevel |-> "admin", lastAccessed |-> now]]

\* app.get(route, verifyToken, handler): the handler runs when the middleware
\* called next(); otherwise the middleware's response stands.
ProtectedRoute(route, authHeader, now) ==
  LET g == verifyToken(authHeader, now)
      r == IF route = "/api/profile" THEN ProfileHandler(g.user, now)
           ELSE UserDataHandler(g.user, now)
  IN [kind |-> "protected", route |-> route, authorization |-> authHeader,
      body |-> NoBody, at |-> now,
      status |-> IF g.next THEN r.status ELSE g.status,
      message |-> IF g.next THEN r.message ELSE g.message,
      token |-> NoToken,
      reqUser |-> g.user,
      user |-> IF g.next THEN r.user ELSE NoUser,
      data |-> IF g.next THEN r.data ELSE NoData,
      handlerRan |-> g.next,
      verifierCalled |-> g.verifierCalled,
      issuerCalled |-> FALSE]

\* app.post('/api/login', handler)
LoginRoute(body, now) ==
  LET r == LoginHandler(body, now)
  IN [kind |-> "login", route |-> "/api/login", authorization |-> NoHeader,
      body |-> body, at |-> now,
      status |-> r.status, message |-> r.message, token |-> r.token,
      reqUser |-> NoPayload, user |-> NoUser, data |-> NoData,
      handlerRan |-> TRUE, verifierCalled |-> FALSE,
      issuerCalled |-> r.issuerCalled]

NoRequest ==
  [kind |-> "none", route |-> "", authorization |-> NoHeader, body |-> NoBody,
   at |-> 0, status |-> 0, message |-> "", token |-> NoToken,
   reqUser |-> NoPayload, user |-> NoUser, data |-> NoData,
   handlerRan |-> FALSE, verifierCalled |-> FALSE, issuerCalled |-> FALSE]

\* ------------------------------------------------------------ requests
\* The values a client puts in a login body field.
Bodies ==
  [username : {Undef, Str(""), Num("0"), Str("admin"), Str("wrong")},
   password : {Undef, Str(""), Num("0"), Str("password123"), Str("wrong")}]

Subst(c, d) == IF c \in Range(B64) THEN Rot(c, d) ELSE B64[d]

\* The token with one character changed.
Mutations(tok) ==
  {[tok EXCEPT ![i] = Subst(tok[i], d)] : i \in 1..Len(tok), d \in 1..MaxMut}

\* What someone without the server's secret can build from a token they hold:
\* the same header and payload, or a payload of their own with a later
\* expiry, signed under another secret, and the unsigned alg-none form.
Forgeries(tok, now) ==
  LET parts == Split(tok)
      mine == EncodePayload([id |-> 2, username |-> "mallory",
                             email |-> "mallory@example.com",
                             iat |-> now, exp |-> now + ExpiresIn])
  IN {JwsSign(parts[1], parts[2], OtherSecret)}
       \cup {JwsSign(HS256Header, mine, OtherSecret)}
       \cup {<<"n">> \o <<".">> \o parts[2] \o <<".">>}

FixedHeaders ==
  {NoHeader,
   Header(<<>>),
   Header(<<"B", "a", "s", "i", "c", " ", "x">>),
   Header(<<"b", "e", "a", "r", "e", "r", " ", "x">>),
   Header(<<"B", "e", "a", "r", "e", "r">>),
   Header(BearerPrefix),
   Header(BearerPrefix \o <<"n", "o", "t", "-", "a", "-", "t", "o", "k", "e", "n">>),
   Header(BearerPrefix \o <<"h", ".", "x">>)}

\* The Authorization headers a client can send, given the tokens handed out.
Headers(now) ==
  FixedHeaders
    \cup {Header(r.token) : r \in issued}
    \cup {Header(BearerPrefix \o r.token) : r \in issued}
    \cup UNION {{Header(BearerPrefix \o m) : m \in Mutations(r.token)} : r \in issued}
    \cup UNION {{Header(BearerPrefix \o f) : f \in Forgeries(r.token, now)} : r \in issued}

\* ------------------------------------------------------------ behaviour
\* JWT_SECRET = process.env.JWT_SECRET || default, with the variable unset (a
\* secret from the environment is the same up to renaming); no request yet.
Init ==
  /\ JWT_SECRET = DefaultSecret
  /\ clock = 0
  /\ issued = {}
  /\ last = NoRequest

\* Time passes; the response on the wire has been delivered.
Tick ==
  /\ clock < MaxClock
  /\ clock' = clock + 1
  /\ last' = NoRequest
  /\ UNCHANGED <<JWT_SECRET, issued>>

\* POST /api/login.  A client keeps the token of a 200 response.
Login ==
  \E body \in Bodies :
    LET r == LoginRoute(body, clock) IN
    /\ last' = r
    /\ issued' = IF r.token.present /\ Cardinality(issued) < MaxTokens
                 THEN issued \cup {[token |-> r.token.value, t |-> clock]}
                 ELSE issued
    /\ UNCHANGED <<JWT_SECRET, clock>>

\* GET /api/profile
GetProfile ==
  \E h \in Headers(clock) :
    /\ last' = ProtectedRoute("/api/profile", h, clock)
    /\ UNCHANGED <<JWT_SECRET, clock, issued>>

\* GET /api/user-data
GetUserData ==
  \E h \in Headers(clock) :
    /\ last' = ProtectedRoute("/api/user-data", h, clock)
    /\ UNCHANGED <<JWT_SECRET, clock, issued>>

Next == Tick \/ Login \/ GetProfile \/ GetUserData

Spec == Init /\ [][Next]_vars

\* ------------------------------------------------------------ properties
\* What the last request carried, where it was to a protected route.
Protected == last.kind = "protected"
HasBearer ==
  last.authorization.present /\ StartsWith(last.authorization.value, BearerPrefix)
Carried == Slice(last.authorization.value, 7)
CarriedParts == Split(Carried)

\* The third segment is the MAC of the first two under the server's secret.
ServerSigned(tok) ==
  LET parts == Split(tok) IN
  /\ Len(parts) = 3
  /\ parts[3] = Hmac(JWT_SECRET, parts[1] \o <<".">> \o parts[2])

OneCharChanged(a, b) ==
  Len(a) = Len(b) /\ Cardinality({i \in 1..Len(a) : a[i] # b[i]}) = 1

\* The positions of the signature segment of an issued token.
SignaturePositions(tok) ==
  {i \in 1..Len(tok) : Cardinality({j \in 1..(i - 1) : tok[j] = "."}) = 2}

AdminClaims == [id |-> 1, username |-> "admin", email |-> "admin@example.com"]

\* C1: on a protected route the handler runs if and only if the gate's
\* verification of the carried token succeeded; on success the decoded claims
\* are on the request and the handler's 200 response is built from them; on
\* every gate failure the answer is 401 and the handler did not run.
C1_HandlerIffVerified ==
  Protected =>
    LET succeeded == HasBearer /\ JwtVerify(Carried, JWT_SECRET, last.at).ok IN
    /\ last.handlerRan <=> succeeded
    /\ succeeded =>
         /\ last.status = 200
         /\ last.reqUser = JwtVerify(Carried, JWT_SECRET, last.at).payload
         /\ last.route = "/api/profile" => last.user.id = last.reqUser.id
         /\ last.route = "/api/user-data" => last.data.userId = last.reqUser.id
    /\ ~succeeded =>
         /\ last.status = 401
         /\ ~last.handlerRan
         /\ last.user = NoUser
         /\ last.data = NoData

C1_Witness ==
  /\ Protected
  /\ last.handlerRan
  /\ last.route = "/api/user-data"
  /\ last.data.userId = 1

\* C2: a token that a successful login returned, sent as Bearer <token> to
\* GET /api/profile before its expiry, gets 200 with the user fields id 1,
\* username admin, email admin@example.com.
C2_RoundTrip ==
  \A r \in issued :
    ( /\ Protected
      /\ last.route = "/api/profile"
      /\ last.authorization = Header(BearerPrefix \o r.token)
      /\ last.at < r.t + ExpiresIn )
    => /\ last.status = 200
       /\ last.user = AdminClaims
       /\ last.reqUser.iat = r.t

C2_Witness ==
  \E r \in issued :
    /\ Protected
    /\ last.route = "/api/profile"
    /\ last.authorization = Header(BearerPrefix \o r.token)
    /\ last.at = r.t + ExpiresIn - 1
    /\ last.status = 200
    /\ last.user = AdminClaims

C4_ExpiryBoundary ==
  \A r \in issued :
    /\ DecodePayload(Split(r.token)[2]).exp = r.t + ExpiresIn
    /\ (Protected /\ last.authorization = Header(BearerPrefix \o r.token))
       => /\ last.at < r.t + ExpiresIn => last.status = 200 /\ last.handlerRan
          /\ last.at >= r.t + ExpiresIn
               => last.status = 401 /\ last.message = MsgExpired

C4_Witness ==
  \E r \in issued :
    /\ Protected
    /\ last.authorization = Header(BearerPrefix \o r.token)
    /\ last.at = r.t + ExpiresIn
    /\ last.message = MsgExpired

\* C5 as claimed: 400 exactly for a missing or empty field, else 200 with a
\* token exactly for the fixed credential, else 401.
C5_Original ==
  last.kind = "login" =>
    LET u == last.body.username
        p == last.body.password
        blank(v) == v = Undef \/ v = Str("")
    IN IF blank(u) \/ blank(p)
       THEN last.status = 400
       ELSE IF u = Str("admin") /\ p = Str("password123")
       THEN last.status = 200
       ELSE last.status = 401

\* C5, amended: 400 "Username and password are required" if username or
\* password is missing, empty or another falsy JSON value (0); else 200 with
\* a freshly issued token if both equal the fixed credential; else 401
\* "Invalid credentials".  The issuer is called, and a token is in the
\* response, only in the 200 case.
C5_LoginClassification ==
  last.kind = "login" =>
    LET u == last.body.username
        p == last.body.password
        falsy(v) == v = Undef \/ v = Str("") \/ v = Num("0")
    IN IF falsy(u) \/ falsy(p)
       THEN /\ last.status = 400
            /\ last.message = "Username and password are required"
            /\ ~last.token.present
            /\ ~last.issuerCalled
       ELSE IF u = Str("admin") /\ p = Str("password123")
       THEN /\ last.status = 200
            /\ last.issuerCalled
            /\ last.token = Header(JwtSign(DEMO_USER, JWT_SECRET, last.at))
       ELSE /\ last.status = 401
            /\ last.message = "Invalid credentials"
            /\ ~last.token.present
            /\ ~last.issuerCalled

C5_Witness ==
  /\ last.kind = "login"
  /\ last.body.username = Num("0")
  /\ last.body.password = Str("password123")
  /\ last.status = 400

VerifierOutcome ==
  LET v == JwtVerify(Carried, JWT_SECRET, last.at) IN
  /\ last.verifierCalled
  /\ last.message \notin {MsgNoToken, MsgFormat}
  /\ v.ok => last.status = 200 /\ last.reqUser = v.payload
  /\ ~v.ok =>
       /\ last.status = 401
       /\ last.message = IF v.name = "TokenExpiredError" THEN MsgExpired
                         ELSE MsgInvalid

\* C7 as claimed: whatever follows "Bearer ", the empty string included, is
\* passed to the verifier and decides the outcome.
C7_Original == (Protected /\ HasBearer) => VerifierOutcome

\* C7, amended: for a header that starts with "Bearer " and has at least one
\* character after it, the substring after the prefix is passed to the
\* verifier and the request's outcome is the verifier's outcome for it; the
\* header "Bearer " with nothing after it gets the malformed-carrier answer
\* without the verifier being called.
C7_BearerPassedOn ==
  (Protected /\ HasBearer) =>
    IF Carried # <<>>
    THEN VerifierOutcome
    ELSE /\ last.status = 401
         /\ last.message = MsgFormat
         /\ ~last.verifierCalled

C7_Witness ==
  /\ Protected
  /\ HasBearer
  /\ Len(CarriedParts) = 1
  /\ Carried # <<>>
  /\ last.verifierCalled
  /\ last.message = MsgInvalid

C9_IndependentTokens ==
  \A r \in issued :
    LET v == JwtVerify(r.token, JWT_SECRET, clock) IN
    /\ v.ok <=> clock < r.t + ExpiresIn
    /\ v.ok => v.payload.iat = r.t /\ v.payload.exp = r.t + ExpiresIn

C9_Witness ==
  \E r1, r2 \in issued :
    /\ r1.t < r2.t
    /\ clock = r2.t
    /\ clock < r1.t + ExpiresIn
    /\ Protected
    /\ last.authorization = Header(BearerPrefix \o r1.token)
    /\ last.handlerRan

====
